---------------------------- MODULE Spec2Model ----------------------------
(***************************************************************************)
(* Model of volt-wasm (src/frontend/wasm-core/volt-wasm/src/lib.rs): the   *)
(* template substitutor, the JSON path resolver and the assertion          *)
(* evaluator.                                                              *)
(*                                                                         *)
(* A Rust String is a sequence of characters; a character is a one-letter  *)
(* TLA+ string, except "U+00E9", which stands for the character e-acute    *)
(* (two bytes in UTF-8).  Deserialized arguments (the variable table, the  *)
(* assertion list, the response description) are given as the outcome of   *)
(* serde's deserialization: [ok |-> FALSE, ...] when the text does not     *)
(* deserialize.  JSON documents and response bodies are texts, parsed by   *)
(* from_str below.                                                         *)
(***************************************************************************)
EXTENDS Integers, Sequences, FiniteSets, TLC

VARIABLES fn, args, ret, pc, body_json, results

vars == <<fn, args, ret, pc, body_json, results>>

\* ------------------------------------------------------------------------
\* Bounds of the checked instance
\* ------------------------------------------------------------------------

\* Number of pieces a template text is put together from.
MaxPieces == 3

\* Number of assertions in a mixed assertion list.
MaxAssertions == 2

\* Number of segments of a JSON path.
MaxSegments == 3

\* ------------------------------------------------------------------------
\* Strings
\* ------------------------------------------------------------------------

\* The character e-acute, the one multi-byte character of the instance.
EAcute == "U+00E9"

\* str::len counts bytes: the UTF-8 width of a character.
Utf8Width(c) == IF c = EAcute THEN 2 ELSE 1

\* str::len: the number of bytes.
ByteLen(s) ==
    Cardinality({ i \in 1..Len(s) : Utf8Width(s[i]) = 1 })
        + 2 * Cardinality({ i \in 1..Len(s) : Utf8Width(s[i]) = 2 })

\* char::is_whitespace, on the characters of the instance.
IsWhitespace(c) == c \in {" ", "\t", "\n"}

RECURSIVE TrimStart(_)
TrimStart(s) ==
    IF s # <<>> /\ IsWhitespace(Head(s)) THEN TrimStart(Tail(s)) ELSE s

RECURSIVE TrimEnd(_)
TrimEnd(s) ==
    IF s # <<>> /\ IsWhitespace(s[Len(s)])
    THEN TrimEnd(SubSeq(s, 1, Len(s) - 1))
    ELSE s

\* str::trim
Trim(s) == TrimEnd(TrimStart(s))

\* pat occurs in s at position i.
OccursAt(s, pat, i) ==
    /\ i >= 1
    /\ i + Len(pat) - 1 <= Len(s)
    /\ \A k \in 1..Len(pat) : s[i + k - 1] = pat[k]

\* str::contains
Contains(s, pat) == \E i \in 1..(Len(s) + 1) : OccursAt(s, pat, i)

\* char::to_lowercase, on the characters of the instance.
LowerChar(c) ==
    CASE c = "A" -> "a"
      [] c = "B" -> "b"
      [] c = "S" -> "s"
      [] c = "X" -> "x"
      [] OTHER -> c

\* str::to_lowercase
to_lowercase(s) == [i \in 1..Len(s) |-> LowerChar(s[i])]

RECURSIVE Flatten(_)
Flatten(ss) == IF ss = <<>> THEN <<>> ELSE Head(ss) \o Flatten(Tail(ss))

\* ------------------------------------------------------------------------
\* Variable substitution
\* ------------------------------------------------------------------------

\* First position k >= j with text[k] = "}", or Len(text) + 1.
RECURSIVE FirstClose(_, _)
FirstClose(text, j) ==
    IF j > Len(text) \/ text[j] = "}" THEN j ELSE FirstClose(text, j + 1)

\* The regex \{\{([^}]+)\}\} tried at position i: the position of the last
\* character of the match, or 0.  [^}]+ is greedy and takes every character
\* up to the first "}"; giving characters back never helps, since the
\* character given back is not "}".
PlaceholderEnd(text, i) ==
    IF i + 1 <= Len(text) /\ text[i] = "{" /\ text[i + 1] = "{"
    THEN LET j == FirstClose(text, i + 2)
         IN  IF j > i + 2 /\ j + 1 <= Len(text) /\ text[j + 1] = "}"
             THEN j + 1
             ELSE 0
    ELSE 0

\* caps.get(1): the interior of the match from i to e.
Capture1(text, i, e) == SubSeq(text, i + 2, e - 2)

\* Replacement with an absent name put back trimmed: "{{" name "}}".
Replacement_trimmed(text, variables, i, e) ==
    LET var_name == Trim(Capture1(text, i, e))
    IN  IF var_name \in DOMAIN variables
        THEN variables[var_name]
        ELSE <<"{", "{">> \o var_name \o <<"}", "}">>

\* The closure given to replace_all: the replacement of the match from i to e.
Replacement(text, variables, i, e) ==
    LET var_name == Trim(Capture1(text, i, e))
    IN  IF var_name \in DOMAIN variables
        THEN variables[var_name]
        ELSE SubSeq(text, i, e)

\* Regex::replace_all from position i on: leftmost matches, not overlapping;
\* the replacement text is copied to the output and not scanned.
RECURSIVE replace_all(_, _, _)
replace_all(text, variables, i) ==
    IF i > Len(text) THEN <<>>
    ELSE LET e == PlaceholderEnd(text, i)
         IN  IF e = 0
             THEN <<text[i]>> \o replace_all(text, variables, i + 1)
             ELSE Replacement(text, variables, i, e)
                      \o replace_all(text, variables, e + 1)

\* substitute_variables with its output scanned for placeholders once more.
substitute_variables_rescanned(text, variables_json) ==
    IF text = <<>> \/ ~Contains(text, <<"{", "{">>) THEN text
    ELSE IF ~variables_json.ok THEN text
    ELSE IF DOMAIN variables_json.map = {} THEN text
    ELSE replace_all(replace_all(text, variables_json.map, 1),
                     variables_json.map, 1)

substitute_variables(text, variables_json) ==
    IF text = <<>> \/ ~Contains(text, <<"{", "{">>) THEN text
    ELSE IF ~variables_json.ok THEN text
    ELSE IF DOMAIN variables_json.map = {} THEN text
    ELSE replace_all(text, variables_json.map, 1)

\* Regex::captures_iter from position i on, pushing each new trimmed name.
RECURSIVE captures_iter(_, _, _)
captures_iter(text, i, found) ==
    IF i > Len(text) THEN found
    ELSE LET e == PlaceholderEnd(text, i)
         IN  IF e = 0 THEN captures_iter(text, i + 1, found)
             ELSE LET var_name == Trim(Capture1(text, i, e))
                  IN  captures_iter(text, e + 1,
                          IF \E k \in 1..Len(found) : found[k] = var_name
                          THEN found
                          ELSE Append(found, var_name))

\* find_variables with a name compared before it is trimmed.
RECURSIVE captures_iter_untrimmed(_, _, _)
captures_iter_untrimmed(text, i, found) ==
    IF i > Len(text) THEN <<>>
    ELSE LET e == PlaceholderEnd(text, i)
         IN  IF e = 0 THEN captures_iter_untrimmed(text, i + 1, found)
             ELSE LET raw == Capture1(text, i, e)
                  IN  (IF raw \in found THEN <<>> ELSE << Trim(raw) >>)
                          \o captures_iter_untrimmed(text, e + 1, found \cup {raw})

find_variables_untrimmed(text) ==
    IF text = <<>> \/ ~Contains(text, <<"{", "{">>) THEN <<>>
    ELSE captures_iter_untrimmed(text, 1, {})

find_variables(text) ==
    IF text = <<>> \/ ~Contains(text, <<"{", "{">>) THEN <<>>
    ELSE captures_iter(text, 1, <<>>)

has_variables(text) ==
    IF text = <<>> THEN FALSE
    ELSE \E i \in 1..Len(text) : PlaceholderEnd(text, i) # 0

\* ------------------------------------------------------------------------
\* JSON values (serde_json::Value)
\* ------------------------------------------------------------------------

None == [some |-> FALSE, v |-> <<>>]
Some(x) == [some |-> TRUE, v |-> x]

\* Value::Null, Bool, Number, String, Array and Object.  An object is its
\* entries <<key, value>> in the order of serde_json's Map (a BTreeMap: by
\* key, one entry per key).
Null == [k |-> "null", v |-> <<>>]
Bool(b) == [k |-> "bool", v |-> b]
Number(n) == [k |-> "number", v |-> n]
String(s) == [k |-> "string", v |-> s]
Array(a) == [k |-> "array", v |-> a]
Object(m) == [k |-> "object", v |-> m]

\* The characters of the instance in the order of their code points.
CodePointOrder ==
    << "\t", "\n", " ", "\"", "(", ",", "-", ".", "0", "1", "2", "3", "4",
       "5", "6", "7", "8", "9", ":", "A", "B", "X", "[", "]", "a", "b", "c",
       "d", "e", "f", "i", "l", "n", "r", "s", "t", "u", "x", "{", "}",
       "U+00E9" >>

CharRank(c) == CHOOSE i \in 1..Len(CodePointOrder) : CodePointOrder[i] = c

\* Ord for String: s < t.
RECURSIVE StrLess(_, _)
StrLess(s, t) ==
    IF t = <<>> THEN FALSE
    ELSE IF s = <<>> THEN TRUE
    ELSE IF Head(s) = Head(t) THEN StrLess(Tail(s), Tail(t))
    ELSE CharRank(Head(s)) < CharRank(Head(t))

\* Map::insert: the value of an existing key is replaced.
RECURSIVE MapInsert(_, _, _)
MapInsert(m, key, val) ==
    IF m = <<>> THEN << <<key, val>> >>
    ELSE IF Head(m)[1] = key THEN << <<key, val>> >> \o Tail(m)
    ELSE IF StrLess(key, Head(m)[1]) THEN << <<key, val>> >> \o m
    ELSE << Head(m) >> \o MapInsert(Tail(m), key, val)

Digits == <<"0", "1", "2", "3", "4", "5", "6", "7", "8", "9">>

IsDigit(c) == \E d \in 1..10 : Digits[d] = c

DigitValue(c) == (CHOOSE d \in 1..10 : Digits[d] = c) - 1

\* The value of a run of digits.
RECURSIVE DigitsValue(_)
DigitsValue(ds) ==
    IF ds = <<>> THEN 0
    ELSE 10 * DigitsValue(SubSeq(ds, 1, Len(ds) - 1)) + DigitValue(ds[Len(ds)])

RECURSIVE NatToString(_)
NatToString(n) ==
    IF n < 10 THEN << Digits[n + 1] >>
    ELSE NatToString(n \div 10) \o << Digits[(n % 10) + 1] >>

\* i32::to_string, i64::to_string and the Display of an integer Number.
IntToString(n) == IF n < 0 THEN <<"-">> \o NatToString(-n) ELSE NatToString(n)

\* serde_json::from_str::<Value>, on texts without escape sequences,
\* fractions and exponents.  A parse step gives [ok, val, next]: next is the
\* position after the value.
ParseError == [ok |-> FALSE, val |-> Null, next |-> 0]
Parsed(val, next) == [ok |-> TRUE, val |-> val, next |-> next]

IsJsonWhitespace(c) == c \in {" ", "\n", "\t", "\r"}

RECURSIVE SkipWhitespace(_, _)
SkipWhitespace(text, i) ==
    IF i <= Len(text) /\ IsJsonWhitespace(text[i])
    THEN SkipWhitespace(text, i + 1)
    ELSE i

\* The position after the last digit of the run of digits starting at i.
RECURSIVE DigitsEnd(_, _)
DigitsEnd(text, i) ==
    IF i <= Len(text) /\ IsDigit(text[i]) THEN DigitsEnd(text, i + 1) ELSE i

\* The position of the closing quote of the string whose first character is
\* at i, or 0: a control character may not stand in a string.
StringEnd(text, i) ==
    LET stops == { n \in i..Len(text) : text[n] \in {"\"", "\n", "\t", "\r"} }
        first == CHOOSE n \in stops : \A m \in stops : n <= m
    IN  IF stops = {} THEN 0
        ELSE IF text[first] = "\"" THEN first
        ELSE 0

parse_literal(text, i, word, val) ==
    IF OccursAt(text, word, i) THEN Parsed(val, i + Len(word)) ELSE ParseError

\* An integer: "-"? ("0" | [1-9][0-9]*); a digit after a leading 0 is an error.
parse_integer(text, i) ==
    LET neg == i <= Len(text) /\ text[i] = "-"
        d == IF neg THEN i + 1 ELSE i
        e == DigitsEnd(text, d)
    IN  IF e = d THEN ParseError
        ELSE IF text[d] = "0" /\ e > d + 1 THEN ParseError
        ELSE Parsed(Number((IF neg THEN -1 ELSE 1)
                               * DigitsValue(SubSeq(text, d, e - 1))), e)

parse_string(text, i) ==
    LET q == StringEnd(text, i + 1)
    IN  IF q = 0 THEN ParseError
        ELSE Parsed(String(SubSeq(text, i + 1, q - 1)), q + 1)

RECURSIVE parse_value(_, _), parse_elements(_, _, _), parse_members(_, _, _)

\* The value starting at position i, after whitespace.
parse_value(text, i0) ==
    LET i == SkipWhitespace(text, i0)
    IN  IF i > Len(text) THEN ParseError
        ELSE CASE text[i] = "n" -> parse_literal(text, i, <<"n", "u", "l", "l">>, Null)
               [] text[i] = "t" -> parse_literal(text, i, <<"t", "r", "u", "e">>, Bool(TRUE))
               [] text[i] = "f" -> parse_literal(text, i, <<"f", "a", "l", "s", "e">>, Bool(FALSE))
               [] text[i] = "-" \/ IsDigit(text[i]) -> parse_integer(text, i)
               [] text[i] = "\"" -> parse_string(text, i)
               [] text[i] = "[" ->
                    LET j == SkipWhitespace(text, i + 1)
                    IN  IF j <= Len(text) /\ text[j] = "]"
                        THEN Parsed(Array(<<>>), j + 1)
                        ELSE parse_elements(text, j, <<>>)
               [] text[i] = "{" ->
                    LET j == SkipWhitespace(text, i + 1)
                    IN  IF j <= Len(text) /\ text[j] = "}"
                        THEN Parsed(Object(<<>>), j + 1)
                        ELSE parse_members(text, j, <<>>)
               [] OTHER -> ParseError

\* The elements of an array from position i on, after the elements acc.
parse_elements(text, i, acc) ==
    LET el == parse_value(text, i)
    IN  IF ~el.ok THEN ParseError
        ELSE LET j == SkipWhitespace(text, el.next)
             IN  IF j > Len(text) THEN ParseError
                 ELSE IF text[j] = "]"
                      THEN Parsed(Array(Append(acc, el.val)), j + 1)
                 ELSE IF text[j] = ","
                      THEN parse_elements(text, j + 1, Append(acc, el.val))
                 ELSE ParseError

\* The members of an object from position i on, after the entries acc.
parse_members(text, i0, acc) ==
    LET i == SkipWhitespace(text, i0)
    IN  IF i > Len(text) \/ text[i] # "\"" THEN ParseError
        ELSE LET key == parse_string(text, i)
             IN  IF ~key.ok THEN ParseError
                 ELSE LET c == SkipWhitespace(text, key.next)
                      IN  IF c > Len(text) \/ text[c] # ":" THEN ParseError
                          ELSE LET val == parse_value(text, c + 1)
                               IN  IF ~val.ok THEN ParseError
                                   ELSE LET j == SkipWhitespace(text, val.next)
                                            m == MapInsert(acc, key.val.v, val.val)
                                        IN  IF j > Len(text) THEN ParseError
                                            ELSE IF text[j] = "}"
                                                 THEN Parsed(Object(m), j + 1)
                                            ELSE IF text[j] = ","
                                                 THEN parse_members(text, j + 1, m)
                                            ELSE ParseError

\* serde_json::from_str::<Value>(text).ok(): characters after the value,
\* other than whitespace, are an error.
from_str(text) ==
    LET r == parse_value(text, 1)
    IN  IF r.ok /\ SkipWhitespace(text, r.next) > Len(text)
        THEN Some(r.val)
        ELSE None

\* serde_json::to_string(&Value): the compact text.
RECURSIVE to_string(_), elements_to_string(_), members_to_string(_)

to_string(value) ==
    CASE value.k = "null" -> <<"n", "u", "l", "l">>
      [] value.k = "bool" ->
            IF value.v THEN <<"t", "r", "u", "e">> ELSE <<"f", "a", "l", "s", "e">>
      [] value.k = "number" -> IntToString(value.v)
      [] value.k = "string" -> <<"\"">> \o value.v \o <<"\"">>
      [] value.k = "array" -> <<"[">> \o elements_to_string(value.v) \o <<"]">>
      [] value.k = "object" -> <<"{">> \o members_to_string(value.v) \o <<"}">>

elements_to_string(a) ==
    IF a = <<>> THEN <<>>
    ELSE to_string(Head(a))
             \o (IF Len(a) > 1 THEN <<",">> \o elements_to_string(Tail(a)) ELSE <<>>)

members_to_string(m) ==
    IF m = <<>> THEN <<>>
    ELSE <<"\"">> \o Head(m)[1] \o <<"\"", ":">> \o to_string(Head(m)[2])
             \o (IF Len(m) > 1 THEN <<",">> \o members_to_string(Tail(m)) ELSE <<>>)

\* Value::get(&str): the field of an object.
get_key(value, key) ==
    IF value.k = "object" /\ \E n \in 1..Len(value.v) : value.v[n][1] = key
    THEN Some(value.v[CHOOSE n \in 1..Len(value.v) : value.v[n][1] = key][2])
    ELSE None

\* Value::get(usize): the element of an array.
get_index(value, index) ==
    IF value.k = "array" /\ index < Len(value.v)
    THEN Some(value.v[index + 1])
    ELSE None

\* str::split('.')
RECURSIVE split_dot(_)
split_dot(path) ==
    LET d == IF \E n \in 1..Len(path) : path[n] = "."
             THEN CHOOSE n \in 1..Len(path) :
                      /\ path[n] = "."
                      /\ \A m \in 1..(n - 1) : path[m] # "."
             ELSE 0
    IN  IF d = 0 THEN << path >>
        ELSE << SubSeq(path, 1, d - 1) >> \o split_dot(SubSeq(path, d + 1, Len(path)))

\* The regex ^(.+)\[(\d+)\]$ on a segment: the position of the "[" of the
\* match, or 0.  The digits reach from the "[" to the closing "]", so the "["
\* is the last one of the segment; "." takes any character but a line feed.
array_re(part) ==
    LET n == Len(part)
        opens == { b \in 1..n : part[b] = "[" }
        b == IF opens = {} THEN 0
             ELSE CHOOSE x \in opens : \A y \in opens : y <= x
    IN  IF /\ n >= 4
           /\ part[n] = "]"
           /\ b > 1
           /\ b + 1 <= n - 1
           /\ \A d \in (b + 1)..(n - 1) : IsDigit(part[d])
           /\ \A c \in 1..(b - 1) : part[c] # "\n"
        THEN b
        ELSE 0

\* A run of digits without its leading zeros.
RECURSIVE StripZeros(_)
StripZeros(ds) ==
    IF Len(ds) > 1 /\ Head(ds) = "0" THEN StripZeros(Tail(ds)) ELSE ds

\* str::parse::<usize>().ok() of a run of digits.  An index of ten or more
\* significant digits either overflows usize or lies beyond the end of every
\* array that fits in memory: the segment does not resolve in both cases, and
\* None stands for both.
parse_usize(ds) ==
    IF Len(StripZeros(ds)) <= 9 THEN Some(DigitsValue(ds)) ELSE None

\* One round of the loop of get_json_path: Some(next node) or None.
path_step(current, part) ==
    LET b == array_re(part)
    IN  IF b # 0
        THEN LET key == SubSeq(part, 1, b - 1)
                 index == parse_usize(SubSeq(part, b + 1, Len(part) - 1))
             IN  IF ~index.some THEN None
                 ELSE LET field == get_key(current, key)
                      IN  IF ~field.some THEN None
                          ELSE get_index(field.v, index.v)
        ELSE get_key(current, part)

\* path_loop with the last node reached returned when a segment fails.
RECURSIVE path_loop_partial(_, _)
path_loop_partial(current, parts) ==
    IF parts = <<>> THEN Some(current)
    ELSE LET nxt == path_step(current, Head(parts))
         IN  IF ~nxt.some THEN Some(current)
             ELSE path_loop_partial(nxt.v, Tail(parts))

RECURSIVE path_loop(_, _)
path_loop(current, parts) ==
    IF parts = <<>> THEN Some(current)
    ELSE LET nxt == path_step(current, Head(parts))
         IN  IF ~nxt.some THEN None ELSE path_loop(nxt.v, Tail(parts))

get_json_path(value, path) ==
    IF path = <<>> THEN Some(value) ELSE path_loop(value, split_dot(path))

\* json_extract with "null" returned for a path that is not found.
json_extract_null_for_missing(json_str, path) ==
    LET value == from_str(json_str)
    IN  IF ~value.some THEN <<"u", "n", "d", "e", "f", "i", "n", "e", "d">>
        ELSE LET found == get_json_path(value.v, path)
             IN  IF found.some THEN to_string(found.v)
                 ELSE <<"n", "u", "l", "l">>

json_extract(json_str, path) ==
    LET value == from_str(json_str)
    IN  IF ~value.some THEN <<"u", "n", "d", "e", "f", "i", "n", "e", "d">>
        ELSE LET found == get_json_path(value.v, path)
             IN  IF found.some THEN to_string(found.v)
                 ELSE <<"u", "n", "d", "e", "f", "i", "n", "e", "d">>

json_validate(json_str) == from_str(json_str).some

\* ------------------------------------------------------------------------
\* Assertion evaluation: the texts of the code
\* ------------------------------------------------------------------------

T_status == <<"s", "t", "a", "t", "u", "s">>  \* "status"
T_responseTime == <<"r", "e", "s", "p", "o", "n", "s", "e", "T", "i", "m", "e">>  \* "responseTime"
T_bodyContains == <<"b", "o", "d", "y", "C", "o", "n", "t", "a", "i", "n", "s">>  \* "bodyContains"
T_bodyJson == <<"b", "o", "d", "y", "J", "s", "o", "n">>  \* "bodyJson"
T_headerExists == <<"h", "e", "a", "d", "e", "r", "E", "x", "i", "s", "t", "s">>  \* "headerExists"
T_headerEquals == <<"h", "e", "a", "d", "e", "r", "E", "q", "u", "a", "l", "s">>  \* "headerEquals"
O_equals == <<"e", "q", "u", "a", "l", "s">>  \* "equals"
O_notEquals == <<"n", "o", "t", "E", "q", "u", "a", "l", "s">>  \* "notEquals"
O_lessThan == <<"l", "e", "s", "s", "T", "h", "a", "n">>  \* "lessThan"
O_greaterThan == <<"g", "r", "e", "a", "t", "e", "r", "T", "h", "a", "n">>  \* "greaterThan"
O_contains == <<"c", "o", "n", "t", "a", "i", "n", "s">>  \* "contains"
O_notContains == <<"n", "o", "t", "C", "o", "n", "t", "a", "i", "n", "s">>  \* "notContains"
O_matches == <<"m", "a", "t", "c", "h", "e", "s">>  \* "matches"
O_exists == <<"e", "x", "i", "s", "t", "s">>  \* "exists"
O_notExists == <<"n", "o", "t", "E", "x", "i", "s", "t", "s">>  \* "notExists"
M_Skipped == <<"S", "k", "i", "p", "p", "e", "d", " ", "(", "d", "i", "s", "a", "b", "l", "e", "d", ")">>  \* "Skipped (disabled)"
M_UnknownType == <<"U", "n", "k", "n", "o", "w", "n", " ", "a", "s", "s", "e", "r", "t", "i", "o", "n", " ", "t", "y", "p", "e", ":", " ">>  \* "Unknown assertion type: "
M_UnknownOperator == <<"U", "n", "k", "n", "o", "w", "n", " ", "o", "p", "e", "r", "a", "t", "o", "r", ":", " ">>  \* "Unknown operator: "
M_StatusIs == <<"S", "t", "a", "t", "u", "s", " ", "c", "o", "d", "e", " ", "i", "s", " ">>  \* "Status code is "
M_Expected == <<"E", "x", "p", "e", "c", "t", "e", "d", " ">>  \* "Expected "
M_Got == <<",", " ", "g", "o", "t", " ">>  \* ", got "
M_StatusIsNot == <<"S", "t", "a", "t", "u", "s", " ", "c", "o", "d", "e", " ", "i", "s", " ", "n", "o", "t", " ">>  \* "Status code is not "
M_ExpectedNot == <<"E", "x", "p", "e", "c", "t", "e", "d", " ", "n", "o", "t", " ">>  \* "Expected not "
M_StatusCode == <<"S", "t", "a", "t", "u", "s", " ", "c", "o", "d", "e", " ">>  \* "Status code "
M_Lt == <<" ", "<", " ">>  \* " < "
M_Gt == <<" ", ">", " ">>  \* " > "
M_ExpectedLt == <<"E", "x", "p", "e", "c", "t", "e", "d", " ", "<", " ">>  \* "Expected < "
M_ExpectedGt == <<"E", "x", "p", "e", "c", "t", "e", "d", " ", ">", " ">>  \* "Expected > "
M_ms == <<"m", "s">>  \* "ms"
M_ResponseTime == <<"R", "e", "s", "p", "o", "n", "s", "e", " ", "t", "i", "m", "e", " ">>  \* "Response time "
M_msLt == <<"m", "s", " ", "<", " ">>  \* "ms < "
M_msGt == <<"m", "s", " ", ">", " ">>  \* "ms > "
M_msGot == <<"m", "s", ",", " ", "g", "o", "t", " ">>  \* "ms, got "
M_Ellipsis == <<".", ".", ".">>  \* "..."
M_BodyContains == <<"B", "o", "d", "y", " ", "c", "o", "n", "t", "a", "i", "n", "s", " ", "\"">>  \* "Body contains \""
M_Quote == <<"\"">>  \* "\""
M_BodyNotContain == <<"B", "o", "d", "y", " ", "d", "o", "e", "s", " ", "n", "o", "t", " ", "c", "o", "n", "t", "a", "i", "n", " ", "\"">>  \* "Body does not contain \""
M_BodyMatches == <<"B", "o", "d", "y", " ", "m", "a", "t", "c", "h", "e", "s", " ", "p", "a", "t", "t", "e", "r", "n", " ", "\"">>  \* "Body matches pattern \""
M_BodyNotMatch == <<"B", "o", "d", "y", " ", "d", "o", "e", "s", " ", "n", "o", "t", " ", "m", "a", "t", "c", "h", " ", "p", "a", "t", "t", "e", "r", "n", " ", "\"">>  \* "Body does not match pattern \""
M_InvalidRegex == <<"I", "n", "v", "a", "l", "i", "d", " ", "r", "e", "g", "e", "x", " ", "p", "a", "t", "t", "e", "r", "n", ":", " ">>  \* "Invalid regex pattern: "
M_InvalidJson == <<"I", "n", "v", "a", "l", "i", "d", " ", "J", "S", "O", "N">>  \* "Invalid JSON"
M_BodyNotJson == <<"R", "e", "s", "p", "o", "n", "s", "e", " ", "b", "o", "d", "y", " ", "i", "s", " ", "n", "o", "t", " ", "v", "a", "l", "i", "d", " ", "J", "S", "O", "N">>  \* "Response body is not valid JSON"
M_undefined == <<"u", "n", "d", "e", "f", "i", "n", "e", "d">>  \* "undefined"
M_Property == <<"P", "r", "o", "p", "e", "r", "t", "y", " ", "\"">>  \* "Property \""
M_QExists == <<"\"", " ", "e", "x", "i", "s", "t", "s">>  \* "\" exists"
M_QNotExist == <<"\"", " ", "d", "o", "e", "s", " ", "n", "o", "t", " ", "e", "x", "i", "s", "t">>  \* "\" does not exist"
M_Equals == <<" ", "e", "q", "u", "a", "l", "s", " ">>  \* " equals "
M_NotEqual == <<" ", "d", "o", "e", "s", " ", "n", "o", "t", " ", "e", "q", "u", "a", "l", " ">>  \* " does not equal "
M_Contains == <<" ", "c", "o", "n", "t", "a", "i", "n", "s", " ", "\"">>  \* " contains \""
M_NotContain == <<" ", "d", "o", "e", "s", " ", "n", "o", "t", " ", "c", "o", "n", "t", "a", "i", "n", " ", "\"">>  \* " does not contain \""
M_exists == <<"e", "x", "i", "s", "t", "s">>  \* "exists"
M_notFound == <<"n", "o", "t", " ", "f", "o", "u", "n", "d">>  \* "not found"
M_Header == <<"H", "e", "a", "d", "e", "r", " ", "\"">>  \* "Header \""
M_QNotFound == <<"\"", " ", "n", "o", "t", " ", "f", "o", "u", "n", "d">>  \* "\" not found"
M_QEqualsQ == <<"\"", " ", "e", "q", "u", "a", "l", "s", " ", "\"">>  \* "\" equals \""
M_ExpectedQ == <<"E", "x", "p", "e", "c", "t", "e", "d", " ", "\"">>  \* "Expected \""
M_QGotQ == <<"\"", ",", " ", "g", "o", "t", " ", "\"">>  \* "\", got \""
M_QNotEqualQ == <<"\"", " ", "d", "o", "e", "s", " ", "n", "o", "t", " ", "e", "q", "u", "a", "l", " ", "\"">>  \* "\" does not equal \""
M_ExpectedNotQ == <<"E", "x", "p", "e", "c", "t", "e", "d", " ", "n", "o", "t", " ", "\"">>  \* "Expected not \""
M_QContainsQ == <<"\"", " ", "c", "o", "n", "t", "a", "i", "n", "s", " ", "\"">>  \* "\" contains \""
M_HeaderNotContain == <<"H", "e", "a", "d", "e", "r", " ", "d", "o", "e", "s", " ", "n", "o", "t", " ", "c", "o", "n", "t", "a", "i", "n", " ", "\"">>  \* "Header does not contain \""

\* ------------------------------------------------------------------------
\* Assertion evaluation
\* ------------------------------------------------------------------------

\* A call either returns a value or panics (a trap of the WebAssembly
\* instance: nothing is returned).
Ok(x) == [kind |-> "ok", val |-> x]
Panic == [kind |-> "panic", val |-> <<>>]

\* struct AssertionResult
AssertionResult(assertion, passed, actual, message) ==
    [assertion_id |-> assertion.id, passed |-> passed,
     actual |-> actual, message |-> message]

\* The digits of the largest i32.
I32MaxDigits == <<"2", "1", "4", "7", "4", "8", "3", "6", "4", "7">>

\* The sign and the digits of a decimal integer text ("+" or "-", then one
\* or more digits), or ok = FALSE.
SignedDigits(s) ==
    LET signed == s # <<>> /\ Head(s) \in {"+", "-"}
        ds == IF signed THEN Tail(s) ELSE s
    IN  [ok |-> ds # <<>> /\ \A n \in 1..Len(ds) : IsDigit(ds[n]),
         neg |-> signed /\ Head(s) = "-",
         digits |-> ds]

\* str::parse::<i32>().unwrap_or(0)
parse_i32_or_0(s) ==
    LET p == SignedDigits(s)
        sig == StripZeros(p.digits)
    IN  IF ~p.ok THEN 0
        ELSE IF Len(sig) < 10 \/ (Len(sig) = 10 /\ ~StrLess(I32MaxDigits, sig))
             THEN (IF p.neg THEN -1 ELSE 1) * DigitsValue(sig)
        ELSE IF p.neg /\ sig = <<"2", "1", "4", "7", "4", "8", "3", "6", "4", "8">>
             THEN (-2147483647) - 1
        ELSE 0

\* str::parse::<i64>().unwrap_or(0), for texts of at most nine significant
\* digits (the expected times of the instance).
parse_i64_or_0(s) ==
    LET p == SignedDigits(s)
    IN  IF ~p.ok THEN 0
        ELSE (IF p.neg THEN -1 ELSE 1) * DigitsValue(StripZeros(p.digits))

run_status_assertion(assertion, status_code) ==
    LET expected == parse_i32_or_0(assertion.expected)
        actual == IntToString(status_code)
        e == IntToString(expected)
        op == assertion.operator
        passed ==
            CASE op = O_equals -> status_code = expected
              [] op = O_notEquals -> status_code # expected
              [] op = O_lessThan -> status_code < expected
              [] op = O_greaterThan -> status_code > expected
              [] OTHER -> FALSE
        message ==
            CASE op = O_equals ->
                    IF passed THEN M_StatusIs \o actual
                    ELSE M_Expected \o e \o M_Got \o actual
              [] op = O_notEquals ->
                    IF passed THEN M_StatusIsNot \o e
                    ELSE M_ExpectedNot \o e \o M_Got \o actual
              [] op = O_lessThan ->
                    IF passed THEN M_StatusCode \o actual \o M_Lt \o e
                    ELSE M_ExpectedLt \o e \o M_Got \o actual
              [] op = O_greaterThan ->
                    IF passed THEN M_StatusCode \o actual \o M_Gt \o e
                    ELSE M_ExpectedGt \o e \o M_Got \o actual
              [] OTHER -> M_UnknownOperator \o op
    IN  Ok(AssertionResult(assertion, passed, actual, message))

run_response_time_assertion(assertion, timing_ms) ==
    LET expected == parse_i64_or_0(assertion.expected)
        t == IntToString(timing_ms)
        e == IntToString(expected)
        actual == t \o M_ms
        op == assertion.operator
        passed ==
            CASE op = O_lessThan -> timing_ms < expected
              [] op = O_greaterThan -> timing_ms > expected
              [] OTHER -> FALSE
        message ==
            CASE op = O_lessThan ->
                    IF passed THEN M_ResponseTime \o t \o M_msLt \o e \o M_ms
                    ELSE M_ExpectedLt \o e \o M_msGot \o t \o M_ms
              [] op = O_greaterThan ->
                    IF passed THEN M_ResponseTime \o t \o M_msGt \o e \o M_ms
                    ELSE M_ExpectedGt \o e \o M_msGot \o t \o M_ms
              [] OTHER -> M_UnknownOperator \o op
    IN  Ok(AssertionResult(assertion, passed, actual, message))

\* The length in which "actual" shows the body.
ActualLimit == 100

\* The number of leading characters of s that take n bytes, or -1 when byte
\* n falls inside a character (n is not a char boundary).
CharsInBytes(s, n) ==
    LET fits == { c \in 0..Len(s) : ByteLen(SubSeq(s, 1, c)) = n }
    IN  IF fits = {} THEN -1 ELSE CHOOSE c \in fits : TRUE

\* &s[..n]: the slice of the first n bytes; it panics when n is not a char
\* boundary.
SliceTo(s, n) ==
    LET c == CharsInBytes(s, n)
    IN  IF c = -1 THEN Panic ELSE Ok(SubSeq(s, 1, c))

\* Regex::new(pattern).is_ok(), for the patterns of the instance: plain
\* characters and ".", and patterns that open a class or a group and do not
\* close it, which do not compile.
regex_new_ok(pattern) ==
    \A n \in 1..Len(pattern) : pattern[n] \notin {"[", "("}

\* Regex::is_match for a compiled pattern of plain characters and ".".
is_match(pattern, s) ==
    \E i \in 1..(Len(s) + 1) :
        /\ i + Len(pattern) - 1 <= Len(s)
        /\ \A n \in 1..Len(pattern) :
              \/ pattern[n] = "." /\ s[i + n - 1] # "\n"
              \/ pattern[n] # "." /\ pattern[n] = s[i + n - 1]

run_body_contains_assertion(assertion, body) ==
    LET slice == IF ByteLen(body) > ActualLimit
                 THEN SliceTo(body, ActualLimit)
                 ELSE Ok(body)
        actual == IF ByteLen(body) > ActualLimit
                  THEN slice.val \o M_Ellipsis
                  ELSE body
        op == assertion.operator
        expected == assertion.expected
        passed ==
            CASE op = O_contains -> Contains(body, expected)
              [] op = O_notContains -> ~Contains(body, expected)
              [] op = O_matches -> regex_new_ok(expected) /\ is_match(expected, body)
              [] OTHER -> FALSE
        message ==
            CASE op = O_contains ->
                    IF passed THEN M_BodyContains \o expected \o M_Quote
                    ELSE M_BodyNotContain \o expected \o M_Quote
              [] op = O_notContains ->
                    IF passed THEN M_BodyNotContain \o expected \o M_Quote
                    ELSE M_BodyContains \o expected \o M_Quote
              [] op = O_matches ->
                    IF ~regex_new_ok(expected) THEN M_InvalidRegex \o expected
                    ELSE IF passed THEN M_BodyMatches \o expected \o M_Quote
                    ELSE M_BodyNotMatch \o expected \o M_Quote
              [] OTHER -> M_UnknownOperator \o op
    IN  IF slice.kind = "panic" THEN Panic
        ELSE Ok(AssertionResult(assertion, passed, actual, message))

\* run_body_json_assertion with equals and notEquals decided on the texts.
run_body_json_assertion_textual(assertion, parsed_body) ==
    IF ~parsed_body.some
    THEN Ok(AssertionResult(assertion, FALSE, M_InvalidJson, M_BodyNotJson))
    ELSE
    LET value == get_json_path(parsed_body.v, assertion.property)
        actual == IF value.some THEN to_string(value.v) ELSE M_undefined
        op == assertion.operator
        property == assertion.property
        expected_text == assertion.expected
        parsed_expected == from_str(expected_text)
        expected == IF parsed_expected.some THEN parsed_expected.v ELSE Null
        passed ==
            CASE op = O_exists -> value.some
              [] op = O_notExists -> ~value.some
              [] op = O_equals -> value.some /\ actual = expected_text
              [] op = O_notEquals -> ~value.some \/ actual # expected_text
              [] op = O_contains ->
                    value.some /\ Contains(to_string(value.v), expected_text)
              [] OTHER -> FALSE
        message ==
            CASE op = O_exists ->
                    IF passed THEN M_Property \o property \o M_QExists
                    ELSE M_Property \o property \o M_QNotExist
              [] op = O_notExists ->
                    IF passed THEN M_Property \o property \o M_QNotExist
                    ELSE M_Property \o property \o M_QExists
              [] op = O_equals ->
                    IF passed THEN property \o M_Equals \o expected_text
                    ELSE M_Expected \o expected_text \o M_Got \o actual
              [] op = O_notEquals ->
                    IF passed THEN property \o M_NotEqual \o expected_text
                    ELSE M_ExpectedNot \o expected_text \o M_Got \o actual
              [] op = O_contains ->
                    IF passed THEN property \o M_Contains \o expected_text \o M_Quote
                    ELSE property \o M_NotContain \o expected_text \o M_Quote
              [] OTHER -> M_UnknownOperator \o op
    IN  Ok(AssertionResult(assertion, passed, actual, message))

run_body_json_assertion(assertion, parsed_body) ==
    IF ~parsed_body.some
    THEN Ok(AssertionResult(assertion, FALSE, M_InvalidJson, M_BodyNotJson))
    ELSE
    LET value == get_json_path(parsed_body.v, assertion.property)
        actual == IF value.some THEN to_string(value.v) ELSE M_undefined
        op == assertion.operator
        property == assertion.property
        expected_text == assertion.expected
        parsed_expected == from_str(expected_text)
        expected == IF parsed_expected.some THEN parsed_expected.v ELSE Null
        passed ==
            CASE op = O_exists -> value.some
              [] op = O_notExists -> ~value.some
              [] op = O_equals -> value.some /\ value.v = expected
              [] op = O_notEquals -> ~value.some \/ value.v # expected
              [] op = O_contains ->
                    value.some /\ Contains(to_string(value.v), expected_text)
              [] OTHER -> FALSE
        message ==
            CASE op = O_exists ->
                    IF passed THEN M_Property \o property \o M_QExists
                    ELSE M_Property \o property \o M_QNotExist
              [] op = O_notExists ->
                    IF passed THEN M_Property \o property \o M_QNotExist
                    ELSE M_Property \o property \o M_QExists
              [] op = O_equals ->
                    IF passed THEN property \o M_Equals \o expected_text
                    ELSE M_Expected \o expected_text \o M_Got \o actual
              [] op = O_notEquals ->
                    IF passed THEN property \o M_NotEqual \o expected_text
                    ELSE M_ExpectedNot \o expected_text \o M_Got \o actual
              [] op = O_contains ->
                    IF passed THEN property \o M_Contains \o expected_text \o M_Quote
                    ELSE property \o M_NotContain \o expected_text \o M_Quote
              [] OTHER -> M_UnknownOperator \o op
    IN  Ok(AssertionResult(assertion, passed, actual, message))

\* run_header_exists_assertion with the names compared as they are written.
run_header_exists_assertion_exact(assertion, headers) ==
    LET exists == \E n \in 1..Len(headers) : headers[n][1] = assertion.property
        op == assertion.operator
        property == assertion.property
        passed ==
            CASE op = O_exists -> exists
              [] op = O_notExists -> ~exists
              [] OTHER -> FALSE
        message ==
            CASE op = O_exists ->
                    IF passed THEN M_Header \o property \o M_QExists
                    ELSE M_Header \o property \o M_QNotFound
              [] op = O_notExists ->
                    IF passed THEN M_Header \o property \o M_QNotExist
                    ELSE M_Header \o property \o M_QExists
              [] OTHER -> M_UnknownOperator \o op
    IN  Ok(AssertionResult(assertion, passed,
                           IF exists THEN M_exists ELSE M_notFound, message))

\* headers is the HashMap as the sequence of its entries <<name, value>> in
\* the order in which the map iterates.
run_header_exists_assertion(assertion, headers) ==
    LET header_name == to_lowercase(assertion.property)
        exists == \E n \in 1..Len(headers) : to_lowercase(headers[n][1]) = header_name
        actual == IF exists THEN M_exists ELSE M_notFound
        op == assertion.operator
        property == assertion.property
        passed ==
            CASE op = O_exists -> exists
              [] op = O_notExists -> ~exists
              [] OTHER -> FALSE
        message ==
            CASE op = O_exists ->
                    IF passed THEN M_Header \o property \o M_QExists
                    ELSE M_Header \o property \o M_QNotFound
              [] op = O_notExists ->
                    IF passed THEN M_Header \o property \o M_QNotExist
                    ELSE M_Header \o property \o M_QExists
              [] OTHER -> M_UnknownOperator \o op
    IN  Ok(AssertionResult(assertion, passed, actual, message))

\* headers.iter().find(..): the first entry, in the order of iteration, whose
\* lowercased name is header_name.
find_header(headers, header_name) ==
    LET hits == { n \in 1..Len(headers) : to_lowercase(headers[n][1]) = header_name }
    IN  IF hits = {} THEN None
        ELSE Some(headers[CHOOSE n \in hits : \A m \in hits : n <= m][2])

run_header_equals_assertion(assertion, headers) ==
    LET header_name == to_lowercase(assertion.property)
        header_value == find_header(headers, header_name)
        value == header_value.v
        actual == IF header_value.some THEN value ELSE M_notFound
        op == assertion.operator
        property == assertion.property
        expected == assertion.expected
        passed ==
            IF ~header_value.some THEN FALSE
            ELSE CASE op = O_equals -> value = expected
                   [] op = O_notEquals -> value # expected
                   [] op = O_contains -> Contains(value, expected)
                   [] OTHER -> FALSE
        message ==
            IF ~header_value.some THEN M_Header \o property \o M_QNotFound
            ELSE CASE op = O_equals ->
                        IF passed
                        THEN M_Header \o property \o M_QEqualsQ \o expected \o M_Quote
                        ELSE M_ExpectedQ \o expected \o M_QGotQ \o value \o M_Quote
                   [] op = O_notEquals ->
                        IF passed
                        THEN M_Header \o property \o M_QNotEqualQ \o expected \o M_Quote
                        ELSE M_ExpectedNotQ \o expected \o M_QGotQ \o value \o M_Quote
                   [] op = O_contains ->
                        IF passed
                        THEN M_Header \o property \o M_QContainsQ \o expected \o M_Quote
                        ELSE M_HeaderNotContain \o expected \o M_Quote
                   [] OTHER -> M_UnknownOperator \o op
    IN  Ok(AssertionResult(assertion, passed, actual, message))

\* run_single_assertion with the type looked at before "enabled".
run_single_assertion_type_first(assertion, response, parsed_body) ==
    LET t == assertion.assertion_type
    IN  IF t \notin { T_status, T_responseTime, T_bodyContains, T_bodyJson,
                      T_headerExists, T_headerEquals }
        THEN Ok(AssertionResult(assertion, FALSE, <<>>, M_UnknownType \o t))
        ELSE IF ~assertion.enabled
        THEN Ok(AssertionResult(assertion, TRUE, <<>>, M_Skipped))
        ELSE CASE t = T_status -> run_status_assertion(assertion, response.status_code)
               [] t = T_responseTime ->
                     run_response_time_assertion(assertion, response.timing_ms)
               [] t = T_bodyContains ->
                     run_body_contains_assertion(assertion, response.body)
               [] t = T_bodyJson -> run_body_json_assertion(assertion, parsed_body)
               [] t = T_headerExists ->
                     run_header_exists_assertion(assertion, response.headers)
               [] t = T_headerEquals ->
                     run_header_equals_assertion(assertion, response.headers)

\* run_single_assertion with the names of the types compared without regard
\* to case.
run_single_assertion_any_case(assertion, response, parsed_body) ==
    IF ~assertion.enabled
    THEN Ok(AssertionResult(assertion, TRUE, <<>>, M_Skipped))
    ELSE LET t == assertion.assertion_type
         IN  CASE to_lowercase(t) = T_status ->
                     run_status_assertion(assertion, response.status_code)
               [] t = T_responseTime ->
                     run_response_time_assertion(assertion, response.timing_ms)
               [] t = T_bodyContains ->
                     run_body_contains_assertion(assertion, response.body)
               [] t = T_bodyJson -> run_body_json_assertion(assertion, parsed_body)
               [] t = T_headerExists ->
                     run_header_exists_assertion(assertion, response.headers)
               [] t = T_headerEquals ->
                     run_header_equals_assertion(assertion, response.headers)
               [] OTHER ->
                     Ok(AssertionResult(assertion, FALSE, <<>>, M_UnknownType \o t))

run_single_assertion(assertion, response, parsed_body) ==
    IF ~assertion.enabled
    THEN Ok(AssertionResult(assertion, TRUE, <<>>, M_Skipped))
    ELSE LET t == assertion.assertion_type
         IN  CASE t = T_status -> run_status_assertion(assertion, response.status_code)
               [] t = T_responseTime ->
                     run_response_time_assertion(assertion, response.timing_ms)
               [] t = T_bodyContains ->
                     run_body_contains_assertion(assertion, response.body)
               [] t = T_bodyJson -> run_body_json_assertion(assertion, parsed_body)
               [] t = T_headerExists ->
                     run_header_exists_assertion(assertion, response.headers)
               [] t = T_headerEquals ->
                     run_header_equals_assertion(assertion, response.headers)
               [] OTHER ->
                     Ok(AssertionResult(assertion, FALSE, <<>>, M_UnknownType \o t))

\* run_assertions as a whole: "[]" when an argument does not deserialize,
\* else the body parsed once and the results of the assertions in order; a
\* panic in one of them ends the call.
run_assertions(assertions_json, response_json) ==
    IF ~assertions_json.ok \/ ~response_json.ok THEN Ok(<<>>)
    ELSE LET assertions == assertions_json.val
             response == response_json.val
             parsed_body == from_str(response.body)
             each == [i \in 1..Len(assertions) |->
                         run_single_assertion(assertions[i], response, parsed_body)]
         IN  IF \E i \in 1..Len(assertions) : each[i].kind = "panic"
             THEN Panic
             ELSE Ok([i \in 1..Len(assertions) |-> each[i].val])

\* ------------------------------------------------------------------------
\* Inputs of the checked instance
\* ------------------------------------------------------------------------

\* A template text is put together from at most MaxPieces of these.
TemplatePieces ==
    { <<"{">>, <<"}">>, <<"a">>, <<"b">>, <<" ">>,
      <<"{", "{">>, <<"}", "}">>,
      <<"{", "{", "a", "}", "}">>,
      <<"{", "{", " ", "a", " ", "}", "}">>,
      <<"{", "{", "b", "}", "}">>,
      <<"{", "{", " ", "}", "}">> }

RECURSIVE TextsOf(_)
TextsOf(n) ==
    IF n = 0 THEN { <<>> }
    ELSE LET shorter == TextsOf(n - 1)
         IN  shorter \cup { t \o p : t \in shorter, p \in TemplatePieces }

Texts == TextsOf(MaxPieces)

\* serde_json::from_str::<HashMap<String, String>>(variables_json): either
\* an error or the table.
VariableTables ==
    { [ok |-> FALSE, map |-> <<>>],
      [ok |-> TRUE,  map |-> <<>>],
      [ok |-> TRUE,  map |-> (<<"a">> :> <<"1">>)],
      [ok |-> TRUE,  map |-> (<<"a">> :> <<"{", "{", "b", "}", "}">>
                              @@ <<"b">> :> <<"2">>)],
      [ok |-> TRUE,  map |-> (<<>> :> <<"E">> @@ <<"b">> :> <<"}", "}">>)],
      [ok |-> TRUE,  map |-> (<<" ", "a", " ">> :> <<"Z">>)],
      [ok |-> TRUE,  map |-> (<<"a">> :> <<"1">> @@ <<"b">> :> <<"{", "{">>)] }

\* The JSON documents given to json_extract.
Documents ==
    { <<"{", "\"", "a", "\"", ":", "[", "[", "7", ",", "8", "]", "]", ",", "\"", "b", "\"", ":", "n", "u", "l", "l", ",", "\"", "u", "\"", ":", "\"", "u", "n", "d", "e", "f", "i", "n", "e", "d", "\"", "}">>,
      <<"{", "\"", "a", "[", "0", "]", "\"", ":", "[", "5", ",", "6", "]", ",", "\"", "a", "\"", ":", "{", "\"", "b", "\"", ":", "[", "n", "u", "l", "l", "]", "}", "}">>,
      <<"n", "u", "l", "l">>,
      <<"\"", "u", "n", "d", "e", "f", "i", "n", "e", "d", "\"">>,
      <<"[", "1", ",", "2", "]">>,
      <<"{", "\"", "a", "\"", ":", "1">>,
      <<"u", "n", "d", "e", "f", "i", "n", "e", "d">>,
      <<>>,
      <<"{", "\"", "\"", ":", "{", "\"", "\"", ":", "0", "}", "}">>,
      <<" ", "{", "\"", "b", "\"", ":", "{", "\"", "a", "\"", ":", "\"", "n", "u", "l", "l", "\"", "}", ",", "\"", "a", "\"", ":", "[", "{", "\"", "b", "\"", ":", "f", "a", "l", "s", "e", "}", "]", "}", " ">> }

\* A path is at most MaxSegments of these, joined by ".".
PathSegments ==
    { <<"a">>, <<"b">>, <<"u">>,
      <<"a", "[", "0", "]">>,
      <<"a", "[", "1", "]">>,
      <<"a", "[", "0", "]", "[", "1", "]">>,
      <<>>,
      <<"[", "0", "]">> }

RECURSIVE PathsOf(_)
PathsOf(n) ==
    IF n = 1 THEN PathSegments
    ELSE LET shorter == PathsOf(n - 1)
         IN  shorter \cup { p \o <<".">> \o s : p \in shorter, s \in PathSegments }

Paths == PathsOf(MaxSegments)

\* n times the character "a".
Pad(n) == [i \in 1..n |-> "a"]

SmallJsonBody ==
    <<"{", "\"", "a", "\"", ":", "[", "1", ",", "2", "]", ",", "\"", "b", "\"", ":", "n", "u", "l", "l", "}">>

\* Response bodies: JSON and not, up to and over ActualLimit characters and
\* bytes, with the two-byte character before, at and after byte ActualLimit.
Bodies ==
    { SmallJsonBody,
      <<"a", "b">>,
      <<"\"">> \o Pad(ActualLimit - 1) \o <<"\"">>,
      Pad(ActualLimit),
      Pad(ActualLimit + 1) \o <<"b">>,
      Pad(ActualLimit - 1) \o <<EAcute>>,
      Pad(ActualLimit - 2) \o <<EAcute, "b">>,
      <<EAcute>> \o Pad(ActualLimit) }

\* Header maps, as their entries in the order of iteration: a map with two
\* names that differ in case only is there in both orders.
HeaderMaps ==
    { <<>>,
      << <<<<"A">>, <<"1">>>> >>,
      << <<<<"b">>, <<"A">>>> >>,
      << <<<<"a">>, <<"1">>>>, <<<<"A">>, <<"2">>>> >>,
      << <<<<"A">>, <<"2">>>>, <<<<"a">>, <<"1">>>> >> }

ResponseData(status_code, headers, body, timing_ms) ==
    [status_code |-> status_code, headers |-> headers,
     body |-> body, timing_ms |-> timing_ms]

\* serde_json::from_str::<ResponseData>(response_json): an error or the
\* response description.
Responses ==
    { [ok |-> FALSE, val |-> <<>>] }
    \cup { [ok |-> TRUE, val |-> ResponseData(200, << <<<<"A">>, <<"1">>>> >>, b, 50)] :
              b \in Bodies }
    \cup { [ok |-> TRUE, val |-> ResponseData(404, h, SmallJsonBody, 150)] :
              h \in HeaderMaps }

Assertion(id, assertion_type, property, operator, expected, enabled) ==
    [id |-> id, assertion_type |-> assertion_type, property |-> property,
     operator |-> operator, expected |-> expected, enabled |-> enabled]

T_bogus == <<"b", "o", "g", "u", "s">>
T_Status == <<"S", "t", "a", "t", "u", "s">>

AssertionTypes ==
    { T_status, T_responseTime, T_bodyContains, T_bodyJson, T_headerExists,
      T_headerEquals, T_bogus, T_Status }

Operators ==
    { O_equals, O_notEquals, O_lessThan, O_greaterThan, O_contains,
      O_notContains, O_matches, O_exists, O_notExists, <<"i", "s">> }

\* JSON paths and header names.
Properties ==
    { <<"a">>, <<"A">>, <<"B">>, <<"b">>, <<"c">>, <<"a", "[", "0", "]">> }

ExpectedTexts ==
    { <<"1">>, <<"2", "0", "0">>, <<"n", "u", "l", "l">>, <<"a">>, <<"a", ".">>,
      <<"[", "a", "(">>, <<>>, <<"[", "1", ",", " ", "2", "]">> }

\* Every assertion of the instance, evaluated alone.
Assertions ==
    { Assertion("x", t, p, o, e, en) :
        t \in AssertionTypes, p \in Properties, o \in Operators,
        e \in ExpectedTexts, en \in BOOLEAN }

\* The assertions that lists of up to MaxAssertions are made of: one of each
\* kind of outcome, two of them with the same id.
ListAssertions ==
    { Assertion("s", T_status, <<>>, O_equals, <<"2", "0", "0">>, TRUE),
      Assertion("j", T_bodyJson, <<"a">>, O_exists, <<>>, TRUE),
      Assertion("c", T_bodyContains, <<>>, O_contains, <<"a">>, TRUE),
      Assertion("d", T_bodyJson, <<"b">>, O_equals, <<"1">>, FALSE),
      Assertion("u", T_bogus, <<"a">>, O_equals, <<"1">>, TRUE),
      Assertion("s", T_headerEquals, <<"a">>, O_equals, <<"1">>, TRUE) }

RECURSIVE ListsOf(_)
ListsOf(n) ==
    IF n = 0 THEN { <<>> }
    ELSE LET shorter == ListsOf(n - 1)
         IN  shorter \cup { Append(l, a) : l \in shorter, a \in ListAssertions }

\* serde_json::from_str::<Vec<Assertion>>(assertions_json): an error or the
\* list.
AssertionLists ==
    { [ok |-> FALSE, val |-> <<>>] }
    \cup { [ok |-> TRUE, val |-> l] : l \in ListsOf(MaxAssertions) }
    \cup { [ok |-> TRUE, val |-> <<a>>] : a \in Assertions }

\* ------------------------------------------------------------------------
\* The entry points.  No state is shared between calls, so a behaviour is one
\* call: pc is "idle" before it and "done" once it has returned.
\* ------------------------------------------------------------------------

Init ==
    /\ fn = "init"
    /\ args = <<>>
    /\ ret = Ok(<<>>)
    /\ pc = "idle"
    /\ body_json = None
    /\ results = <<>>

SubstituteVariables ==
    /\ pc = "idle"
    /\ \E text \in Texts, variables_json \in VariableTables :
          /\ fn' = "substitute_variables"
          /\ args' = <<text, variables_json>>
          /\ ret' = Ok(substitute_variables(text, variables_json))
    /\ pc' = "done"
    /\ UNCHANGED <<body_json, results>>

FindVariables ==
    /\ pc = "idle"
    /\ \E text \in Texts :
          /\ fn' = "find_variables"
          /\ args' = <<text>>
          /\ ret' = Ok(find_variables(text))
    /\ pc' = "done"
    /\ UNCHANGED <<body_json, results>>

HasVariables ==
    /\ pc = "idle"
    /\ \E text \in Texts :
          /\ fn' = "has_variables"
          /\ args' = <<text>>
          /\ ret' = Ok(has_variables(text))
    /\ pc' = "done"
    /\ UNCHANGED <<body_json, results>>

JsonExtract ==
    /\ pc = "idle"
    /\ \E json_str \in Documents, path \in Paths \cup { <<>> } :
          /\ fn' = "json_extract"
          /\ args' = <<json_str, path>>
          /\ ret' = Ok(json_extract(json_str, path))
    /\ pc' = "done"
    /\ UNCHANGED <<body_json, results>>

\* run_assertions up to the map over the assertions: both arguments are
\* deserialized ("[]" is returned when one is not) and the body is parsed.
RunAssertions ==
    /\ pc = "idle"
    /\ \E assertions_json \in AssertionLists, response_json \in Responses :
          /\ fn' = "run_assertions"
          /\ args' = <<assertions_json, response_json>>
          /\ IF assertions_json.ok /\ response_json.ok
             THEN /\ body_json' = from_str(response_json.val.body)
                  /\ pc' = "map"
                  /\ ret' = ret
             ELSE /\ body_json' = body_json
                  /\ pc' = "done"
                  /\ ret' = Ok(<<>>)
    /\ UNCHANGED results

\* One round of the map: run_single_assertion on the next assertion.  A
\* panic ends the call without a return value.
RunSingleAssertion ==
    /\ pc = "map"
    /\ Len(results) < Len(args[1].val)
    /\ \E r \in { run_single_assertion(args[1].val[Len(results) + 1],
                                        args[2].val, body_json) } :
          IF r.kind = "panic"
          THEN /\ ret' = Panic
               /\ pc' = "done"
               /\ UNCHANGED results
          ELSE /\ results' = Append(results, r.val)
               /\ UNCHANGED <<ret, pc>>
    /\ UNCHANGED <<fn, args, body_json>>

\* collect() and the serialization of the results.
RunAssertionsReturn ==
    /\ pc = "map"
    /\ Len(results) = Len(args[1].val)
    /\ ret' = Ok(results)
    /\ pc' = "done"
    /\ UNCHANGED <<fn, args, body_json, results>>

Next ==
    \/ SubstituteVariables
    \/ FindVariables
    \/ HasVariables
    \/ JsonExtract
    \/ RunAssertions
    \/ RunSingleAssertion
    \/ RunAssertionsReturn

Spec == Init /\ [][Next]_vars

\* ------------------------------------------------------------------------
\* Properties
\* ------------------------------------------------------------------------

\* The call is run_assertions and both of its arguments deserialized.
InRunAssertions == fn = "run_assertions" /\ args[1].ok /\ args[2].ok

\* The assertion list and the response of the run_assertions call.
TheAssertions == args[1].val
TheResponse == args[2].val

KnownTypes ==
    { <<"s", "t", "a", "t", "u", "s">>,
      <<"r", "e", "s", "p", "o", "n", "s", "e", "T", "i", "m", "e">>,
      <<"b", "o", "d", "y", "C", "o", "n", "t", "a", "i", "n", "s">>,
      <<"b", "o", "d", "y", "J", "s", "o", "n">>,
      <<"h", "e", "a", "d", "e", "r", "E", "x", "i", "s", "t", "s">>,
      <<"h", "e", "a", "d", "e", "r", "E", "q", "u", "a", "l", "s">> }

\* The body whose byte ActualLimit lies inside its last character.
SplitCharBody == Pad(ActualLimit - 1) \o <<EAcute>>

\* C1: when both arguments deserialize, run_assertions returns one result
\* per assertion, in the order of the assertions: as many results as
\* assertions, the i-th with the id of the i-th assertion.
C1_OneResultPerAssertion ==
    (InRunAssertions /\ pc = "done") =>
        /\ ret.kind = "ok"
        /\ Len(ret.val) = Len(TheAssertions)
        /\ \A i \in 1..Len(TheAssertions) :
              ret.val[i].assertion_id = TheAssertions[i].id

\* C2: a disabled assertion yields passed = TRUE, actual = "" and the message
\* "Skipped (disabled)", whatever its type, operator, property and expected
\* value and whatever the response; its type and operator are not evaluated,
\* so it is never the assertion at which the call panics.
C2_DisabledIsSkipped ==
    InRunAssertions =>
        /\ \A i \in 1..Len(results) :
              ~TheAssertions[i].enabled =>
                  results[i] =
                      [assertion_id |-> TheAssertions[i].id,
                       passed |-> TRUE,
                       actual |-> <<>>,
                       message |-> <<"S", "k", "i", "p", "p", "e", "d", " ", "(",
                                     "d", "i", "s", "a", "b", "l", "e", "d", ")">>]
        /\ (pc = "done" /\ ret.kind = "panic") =>
              TheAssertions[Len(results) + 1].enabled

\* C2 witness: a disabled bodyContains assertion has its result although the
\* body is not JSON and slicing it at ActualLimit would panic.
C2_Witness ==
    /\ InRunAssertions
    /\ Len(results) = 1
    /\ ~TheAssertions[1].enabled
    /\ TheAssertions[1].assertion_type = T_bodyContains
    /\ TheResponse.body = SplitCharBody
    /\ ~body_json.some

\* C3 as claimed: an assertion of an unknown type yields passed = FALSE, an
\* empty actual and a message that contains the type.
C3_UnknownTypeFails ==
    InRunAssertions =>
        \A i \in 1..Len(results) :
            TheAssertions[i].assertion_type \notin KnownTypes =>
                /\ ~results[i].passed
                /\ results[i].actual = <<>>
                /\ Contains(results[i].message, TheAssertions[i].assertion_type)

\* C3 amended: an enabled assertion of an unknown type yields passed = FALSE,
\* an empty actual and a message that contains the type.
C3_EnabledUnknownTypeFails ==
    InRunAssertions =>
        \A i \in 1..Len(results) :
            (TheAssertions[i].enabled
                 /\ TheAssertions[i].assertion_type \notin KnownTypes) =>
                /\ ~results[i].passed
                /\ results[i].actual = <<>>
                /\ Contains(results[i].message, TheAssertions[i].assertion_type)

\* C3 witness: the result of an enabled assertion of type "Status".
C3_Witness ==
    /\ InRunAssertions
    /\ Len(results) = 1
    /\ TheAssertions[1].enabled
    /\ TheAssertions[1].assertion_type = <<"S", "t", "a", "t", "u", "s">>
    /\ ~results[1].passed

\* The text from i to e is a placeholder: "{{", one or more characters other
\* than "}", "}}".
IsPlaceholder(text, i, e) ==
    /\ 1 <= i
    /\ i + 4 <= e
    /\ e <= Len(text)
    /\ text[i] = "{" /\ text[i + 1] = "{"
    /\ text[e - 1] = "}" /\ text[e] = "}"
    /\ \A k \in (i + 2)..(e - 2) : text[k] # "}"

\* The placeholders <<i, e>> of a text.  Placeholders that overlap end at the
\* same "}}" (the interior of the longer one has no "}"), and the one read is
\* the longest of them, which starts leftmost.
PlaceholdersOf(text) ==
    LET opens == { i \in 1..(Len(text) - 1) : text[i] = "{" /\ text[i + 1] = "{" }
        closes == { e \in 2..Len(text) : text[e - 1] = "}" /\ text[e] = "}" }
        all == { p \in opens \X closes : IsPlaceholder(text, p[1], p[2]) }
    IN  { p \in all : \A q \in all : q[2] = p[2] => p[1] <= q[1] }

\* The name of placeholder p: its interior without the whitespace around it.
NameOf(text, p) ==
    LET inner == SubSeq(text, p[1] + 2, p[2] - 2)
        black == { k \in 1..Len(inner) : inner[k] \notin {" ", "\t", "\n"} }
    IN  IF black = {} THEN <<>>
        ELSE SubSeq(inner,
                    CHOOSE k \in black : \A m \in black : k <= m,
                    CHOOSE k \in black : \A m \in black : m <= k)

\* The placeholders of the text whose name is a key of the table.
KnownPlaceholders(text, table) ==
    { p \in PlaceholdersOf(text) : NameOf(text, p) \in DOMAIN table }

\* The text with each of the placeholders known replaced by the value of its
\* name in the table, and every other character kept.
OnlyKnownReplaced(text, table, known) ==
    LET at(k) ==
            IF \E p \in known : p[1] = k
            THEN table[NameOf(text, CHOOSE p \in known : p[1] = k)]
            ELSE IF \E p \in known : p[1] < k /\ k <= p[2]
            THEN <<>>
            ELSE << text[k] >>
    IN  Flatten([k \in 1..Len(text) |-> at(k)])

\* C4: substitute_variables replaces each placeholder whose trimmed interior
\* is a key of the table by the value of that key and keeps every other
\* character, the placeholders of absent names included, as they are; the
\* output is the input when the input has no "{{" or the table is empty.
C4_OnlyKnownPlaceholdersReplaced ==
    (fn = "substitute_variables" /\ args[2].ok) =>
        /\ \A known \in { KnownPlaceholders(args[1], args[2].map) } :
              ret.val = OnlyKnownReplaced(args[1], args[2].map, known)
        /\ (DOMAIN args[2].map = {}
                \/ ~(\E i \in 1..Len(args[1]) - 1 :
                        args[1][i] = "{" /\ args[1][i + 1] = "{")) =>
              ret.val = args[1]

\* C4 witness: "{{ a }}{{ }}" with the table {a: "1"} gives "1{{ }}": the
\* placeholder of a is replaced, the one of the absent empty name is kept
\* with its blank.
C4_Witness ==
    /\ fn = "substitute_variables"
    /\ args[1] = <<"{", "{", " ", "a", " ", "}", "}", "{", "{", " ", "}", "}">>
    /\ args[2].ok
    /\ DOMAIN args[2].map = { <<"a">> }
    /\ ret.val = <<"1", "{", "{", " ", "}", "}">>

\* C5: find_variables returns the names of the placeholders of the text,
\* each once, in the order of the first placeholder of each name.
C5_NamesInFirstOccurrenceOrder ==
    fn = "find_variables" =>
        \A P \in { PlaceholdersOf(args[1]) } :
            LET text == args[1]
                first(name) ==
                    CHOOSE i \in 1..Len(text) :
                        /\ \E p \in P : p[1] = i /\ NameOf(text, p) = name
                        /\ \A p \in P : NameOf(text, p) = name => i <= p[1]
            IN  /\ { ret.val[k] : k \in 1..Len(ret.val) }
                      = { NameOf(text, p) : p \in P }
                /\ \A j, k \in 1..Len(ret.val) :
                      j < k => /\ ret.val[j] # ret.val[k]
                               /\ first(ret.val[j]) < first(ret.val[k])

\* C5 witness: "{{b}}{{ a }}{{a}}" gives b, a: the second and the third
\* placeholder name the same variable.
C5_Witness ==
    /\ fn = "find_variables"
    /\ args[1] = <<"{", "{", "b", "}", "}", "{", "{", " ", "a", " ", "}", "}",
                   "{", "{", "a", "}", "}">>
    /\ ret.val = << <<"b">>, <<"a">> >>

\* Two letters that differ in case only.
CasePairs ==
    { <<"a", "A">>, <<"A", "a">>, <<"b", "B">>, <<"B", "b">>,
      <<"s", "S">>, <<"S", "s">>, <<"x", "X">>, <<"X", "x">> }

\* s and t are equal but for the case of their letters.
EqualIgnoringCase(s, t) ==
    /\ Len(s) = Len(t)
    /\ \A k \in 1..Len(s) : s[k] = t[k] \/ <<s[k], t[k]>> \in CasePairs

\* The entries of the header map whose name is the given one but for case.
HeadersNamed(name) ==
    { n \in 1..Len(TheResponse.headers) :
        EqualIgnoringCase(TheResponse.headers[n][1], name) }

\* C6: the header of headerExists and headerEquals is looked up without
\* regard to the case of its name.  exists passes iff some name of the map is
\* the property but for case, notExists iff none is; headerEquals compares
\* the value found under such a name with expected as it is written, and
\* when there is no such name it fails for every operator with the message
\* 'Header "<name>" not found'.
C6_HeaderLookupIgnoresCase ==
    InRunAssertions =>
        \A i \in 1..Len(results) :
            LET a == TheAssertions[i]
                r == results[i]
                named == HeadersNamed(a.property)
            IN  /\ (a.enabled /\ a.assertion_type = T_headerExists) =>
                      /\ a.operator = O_exists => (r.passed <=> named # {})
                      /\ a.operator = O_notExists => (r.passed <=> named = {})
                /\ (a.enabled /\ a.assertion_type = T_headerEquals) =>
                      IF named = {}
                      THEN /\ ~r.passed
                           /\ r.message =
                                 <<"H", "e", "a", "d", "e", "r", " ", "\"">>
                                     \o a.property
                                     \o <<"\"", " ", "n", "o", "t", " ",
                                          "f", "o", "u", "n", "d">>
                      ELSE \E n \in named :
                              LET value == TheResponse.headers[n][2]
                              IN  /\ r.actual = value
                                  /\ a.operator = O_equals =>
                                        (r.passed <=> value = a.expected)
                                  /\ a.operator = O_notEquals =>
                                        (r.passed <=> value # a.expected)

\* C6 witness: under the property "B" headerEquals finds the value "A" of
\* the header "b", which is not equal to the expected "a".
C6_Witness ==
    /\ InRunAssertions
    /\ Len(results) = 1
    /\ TheAssertions[1].enabled
    /\ TheAssertions[1].assertion_type = T_headerEquals
    /\ TheAssertions[1].operator = O_equals
    /\ TheAssertions[1].property = <<"B">>
    /\ TheAssertions[1].expected = <<"a">>
    /\ results[1].actual = <<"A">>
    /\ ~results[1].passed

\* C7: when the body is not JSON, every enabled bodyJson assertion of the
\* list fails with actual "Invalid JSON" and message "Response body is not
\* valid JSON", and every assertion of another type that has a result when
\* it is evaluated alone against the response has that result in the list.
C7_ParseFailureIsShared ==
    (InRunAssertions /\ pc = "done" /\ ~from_str(TheResponse.body).some) =>
        \A i \in 1..Len(TheAssertions) :
            \A alone \in { run_single_assertion(TheAssertions[i], TheResponse,
                                                 from_str(TheResponse.body)) } :
                IF TheAssertions[i].enabled
                       /\ TheAssertions[i].assertion_type = T_bodyJson
                THEN /\ ret.kind = "ok"
                     /\ ~ret.val[i].passed
                     /\ ret.val[i].actual =
                           <<"I", "n", "v", "a", "l", "i", "d", " ",
                             "J", "S", "O", "N">>
                     /\ ret.val[i].message =
                           <<"R", "e", "s", "p", "o", "n", "s", "e", " ",
                             "b", "o", "d", "y", " ", "i", "s", " ",
                             "n", "o", "t", " ", "v", "a", "l", "i", "d", " ",
                             "J", "S", "O", "N">>
                ELSE alone.kind = "ok" =>
                         (ret.kind = "ok" /\ ret.val[i] = alone.val)

\* C8: json_extract returns the text null iff the path resolves to a JSON
\* null, and the text undefined iff the document does not parse or the path
\* does not resolve.
C8_NullIsNotUndefined ==
    fn = "json_extract" =>
        \A found \in { IF from_str(args[1]).some
                       THEN get_json_path(from_str(args[1]).v, args[2])
                       ELSE None } :
            /\ ret.val = <<"n", "u", "l", "l">>
                  <=> (found.some /\ found.v = Null)
            /\ ret.val = <<"u", "n", "d", "e", "f", "i", "n", "e", "d">>
                  <=> ~found.some

\* C8 witness: the path u resolves to the JSON string "undefined", which is
\* returned in quotes.
C8_Witness ==
    /\ fn = "json_extract"
    /\ args[2] = <<"u">>
    /\ ret.val = <<"\"", "u", "n", "d", "e", "f", "i", "n", "e", "d", "\"">>

\* C9: the actual of an enabled bodyContains assertion is the first
\* ActualLimit characters of the body followed by "..." when the body has
\* more characters than that, and the body otherwise; contains and
\* notContains are decided on the whole body.
C9_ActualIsFirstCharacters ==
    (InRunAssertions /\ pc = "done" /\ Len(TheAssertions) = 1
         /\ TheAssertions[1].enabled
         /\ TheAssertions[1].assertion_type = T_bodyContains) =>
        /\ ret.kind = "ok"
        /\ ret.val[1].actual =
              IF Len(TheResponse.body) > ActualLimit
              THEN SubSeq(TheResponse.body, 1, ActualLimit) \o <<".", ".", ".">>
              ELSE TheResponse.body
        /\ TheAssertions[1].operator = O_contains =>
              (ret.val[1].passed
                   <=> Contains(TheResponse.body, TheAssertions[1].expected))
        /\ TheAssertions[1].operator = O_notContains =>
              (ret.val[1].passed
                   <=> ~Contains(TheResponse.body, TheAssertions[1].expected))

\* The segments of a path: the texts between its dots.
SegmentsOf(path) ==
    LET dots == { n \in 1..Len(path) : path[n] = "." }
        dot(k) == CHOOSE d \in dots : Cardinality({ x \in dots : x < d }) = k - 1
        count == Cardinality(dots) + 1
    IN  [k \in 1..count |->
            SubSeq(path,
                   IF k = 1 THEN 1 ELSE dot(k - 1) + 1,
                   IF k = count THEN Len(path) ELSE dot(k) - 1)]

\* The readings <<key, index>> of a segment as key[index]: a key of one or
\* more characters, "[", one or more digits, "]".  There is at most one.
IndexedReadings(seg) ==
    { << SubSeq(seg, 1, b - 1), DigitsValue(SubSeq(seg, b + 1, Len(seg) - 1)) >> :
        b \in { c \in 2..(Len(seg) - 2) :
                  /\ seg[c] = "["
                  /\ seg[Len(seg)] = "]"
                  /\ \A d \in (c + 1)..(Len(seg) - 1) :
                        seg[d] \in {"0", "1", "2", "3", "4", "5", "6", "7", "8", "9"} } }

\* The object node has a field of this name.
HasField(node, name) ==
    node.k = "object" /\ \E n \in 1..Len(node.v) : node.v[n][1] = name

FieldOf(node, name) ==
    node.v[CHOOSE n \in 1..Len(node.v) : node.v[n][1] = name][2]

\* What a segment resolves to at a node, as C10 states it.
SegmentResolves(node, seg) ==
    IF IndexedReadings(seg) # {}
    THEN LET reading == CHOOSE r \in IndexedReadings(seg) : TRUE
         IN  IF /\ HasField(node, reading[1])
                /\ FieldOf(node, reading[1]).k = "array"
                /\ Len(FieldOf(node, reading[1]).v) > reading[2]
             THEN Some(FieldOf(node, reading[1]).v[reading[2] + 1])
             ELSE None
    ELSE IF HasField(node, seg) THEN Some(FieldOf(node, seg)) ELSE None

\* The segments from the k-th on, resolved one after the other from a node:
\* a segment that does not resolve makes the whole "not found".
RECURSIVE SegmentsResolve(_, _, _)
SegmentsResolve(node, segs, k) ==
    IF k > Len(segs) THEN Some(node)
    ELSE \* the node the k-th segment leads to, if any
         LET step == SegmentResolves(node, segs[k])
         IN  IF step.some THEN SegmentsResolve(step.v, segs, k + 1) ELSE None

\* C10: a path that is not empty resolves segment by segment from left to
\* right, with at most one index per segment; json_extract returns the text
\* of the value reached, and "undefined" as soon as one segment does not
\* resolve.
C10_PathResolvesBySegments ==
    (fn = "json_extract" /\ args[2] # <<>> /\ from_str(args[1]).some) =>
        \A reached \in { SegmentsResolve(from_str(args[1]).v,
                                         SegmentsOf(args[2]), 1) } :
            ret.val = IF reached.some
                      THEN to_string(reached.v)
                      ELSE <<"u", "n", "d", "e", "f", "i", "n", "e", "d">>

\* C10 witness: on {"a":[[7,8]], ...} the path a[0][1] is "not found",
\* not the nested element 8.
C10_Witness ==
    /\ fn = "json_extract"
    /\ args[2] = <<"a", "[", "0", "]", "[", "1", "]">>
    /\ from_str(args[1]).some
    /\ get_json_path(from_str(args[1]).v, <<"a", "[", "0", "]">>)
           = Some(Array(<<Number(7), Number(8)>>))
    /\ ret.val = <<"u", "n", "d", "e", "f", "i", "n", "e", "d">>

\* The value the expected text of an assertion stands for: the text parsed
\* as JSON, and JSON null when it is not JSON.
ExpectedValue(assertion) ==
    IF from_str(assertion.expected).some
    THEN from_str(assertion.expected).v
    ELSE Null

\* The result of the assertion with its operator replaced by equals, against
\* the response of the call.
AsEquals(assertion) ==
    run_single_assertion([assertion EXCEPT !.operator = O_equals],
                         TheResponse, from_str(TheResponse.body))

\* C11: on a body that is JSON, an enabled bodyJson assertion with operator
\* equals passes iff its path resolves to a value equal to the expected text
\* parsed as JSON (null when the text is not JSON), and one with operator
\* notEquals passes exactly when the same assertion with equals fails.
C11_EqualsComparesJsonValues ==
    (InRunAssertions /\ pc = "done" /\ ret.kind = "ok"
         /\ from_str(TheResponse.body).some) =>
        \A i \in 1..Len(TheAssertions) :
            \A found \in { SegmentsResolve(from_str(TheResponse.body).v,
                                           SegmentsOf(TheAssertions[i].property),
                                           1) } :
                (TheAssertions[i].enabled
                     /\ TheAssertions[i].assertion_type = T_bodyJson
                     /\ TheAssertions[i].property # <<>>) =>
                    /\ TheAssertions[i].operator = O_equals =>
                          (ret.val[i].passed
                               <=> (found.some
                                      /\ found.v = ExpectedValue(TheAssertions[i])))
                    /\ TheAssertions[i].operator = O_notEquals =>
                          (ret.val[i].passed
                               <=> ~AsEquals(TheAssertions[i]).val.passed)
                    /\ (TheAssertions[i].operator = O_notEquals /\ ~found.some) =>
                          ret.val[i].passed

\* C11 witness: the path b resolves to null and the expected text a is not
\* JSON, so equals passes.
C11_Witness ==
    /\ InRunAssertions /\ pc = "done" /\ ret.kind = "ok"
    /\ Len(TheAssertions) = 1
    /\ TheAssertions[1].enabled
    /\ TheAssertions[1].assertion_type = T_bodyJson
    /\ TheAssertions[1].operator = O_equals
    /\ TheAssertions[1].property = <<"b">>
    /\ TheAssertions[1].expected = <<"a">>
    /\ TheResponse.body = SmallJsonBody
    /\ ret.val[1].passed
    /\ ret.val[1].actual = <<"n", "u", "l", "l">>

\* By how much the placeholders ps of the text, replaced by the values of
\* their names, make the text longer.
RECURSIVE GrowthOf(_, _, _)
GrowthOf(text, table, ps) ==
    IF ps = {} THEN 0
    ELSE LET p == CHOOSE q \in ps : TRUE
         IN  Len(table[NameOf(text, p)]) - (p[2] - p[1] + 1)
                 + GrowthOf(text, table, ps \ {p})

\* C12: substitution is one pass over the input: the value of each
\* placeholder of the input whose name is in the table is in the output as
\* it is in the table, at the place of the placeholder, and nothing else
\* changes the length of the text; placeholders that are in the output only
\* through inserted values are not replaced.
C12_ValuesInsertedVerbatim ==
    (fn = "substitute_variables" /\ args[2].ok) =>
        \A known \in { KnownPlaceholders(args[1], args[2].map) } :
            /\ Len(ret.val) = Len(args[1]) + GrowthOf(args[1], args[2].map, known)
            /\ \A p \in known :
                  \A at \in { p[1] + GrowthOf(args[1], args[2].map,
                                              { q \in known : q[1] < p[1] }) } :
                      SubSeq(ret.val, at,
                             at + Len(args[2].map[NameOf(args[1], p)]) - 1)
                          = args[2].map[NameOf(args[1], p)]

\* C12 witness: with b standing for "{{" and a for "1", the text {{b}}a}}
\* gives {{a}}: the placeholder of a that the inserted value completes is
\* not replaced.
C12_Witness ==
    /\ fn = "substitute_variables"
    /\ args[1] = <<"{", "{", "b", "}", "}", "a", "}", "}">>
    /\ args[2].ok
    /\ DOMAIN args[2].map = { <<"a">>, <<"b">> }
    /\ args[2].map[<<"b">>] = <<"{", "{">>
    /\ ret.val = <<"{", "{", "a", "}", "}">>

\* Two deserialized responses of the same response description: the same
\* status, body and timing and the same header entries, in whatever order
\* the map iterates over them.
SameDescription(r1, r2) ==
    /\ r1.ok /\ r2.ok
    /\ r1.val.status_code = r2.val.status_code
    /\ r1.val.body = r2.val.body
    /\ r1.val.timing_ms = r2.val.timing_ms
    /\ Len(r1.val.headers) = Len(r2.val.headers)
    /\ { r1.val.headers[n] : n \in 1..Len(r1.val.headers) }
          = { r2.val.headers[n] : n \in 1..Len(r2.val.headers) }

\* C13: run_assertions is deterministic: every evaluation of the same
\* assertion list against the same response description returns the result
\* list that this one returned, the same passed, actual and message for each
\* assertion, also when header names differ in case only.
C13_SameInputSameResults ==
    (InRunAssertions /\ pc = "done") =>
        \A other \in { o \in Responses : SameDescription(o, args[2]) } :
            run_assertions(args[1], other) = ret

=============================================================================
